---- MODULE Spec2Model ----
(* message_ix.util: make_df, _deprecated_make_df and expand_dims.            *)
(*                                                                         *)
(* Cells of a table are strings; None is Python's None / pandas' missing     *)
(* value.  A keyword value is a tagged record: a scalar, a list (a "raw      *)
(* array" for pandas) or a series (index-labelled: a column taken out of a   *)
(* DataFrame, or the {index: value} dict DataFrame.to_dict() produces).      *)
EXTENDS Naturals, Sequences, FiniteSets, TLC

VARIABLES pc, call, result, raised, warnings, heap, store, snapshot, checked_out, log, pre

vars == <<pc, call, result, raised, warnings, heap, store, snapshot, checked_out, log, pre>>

\* Longest list passed as a keyword value, and most rows a stored parameter holds.
MaxLen == 2

----------------------------------------------------------------------------
(* Values and tables                                                        *)

None == "None"

Scalar(c) == [tag |-> "scalar", items |-> <<c>>]

List(s) == [tag |-> "list", items |-> s]

Series(s) == [tag |-> "series", items |-> s]

is_scalar(v) == v.tag = "scalar"

Range(s) == {s[i] : i \in 1..Len(s)}

SetMax(S) == IF S = {} THEN 0 ELSE CHOOSE m \in S : \A x \in S : x <= m

NoFrame == [kind |-> "none", columns |-> <<>>, nrows |-> 0, data |-> <<>>]

Returned(frame) == [err |-> "none", frame |-> frame]

Raise(e) == [err |-> e, frame |-> NoFrame]

ErrNotFound == "ValueError: is not a MESSAGE or MACRO parameter"

ErrNotPar == "ValueError: is not par"

ErrLength == "ValueError: All arrays must be of the same length"

ErrNoIndex == "ValueError: If using all scalar values, you must pass an index"

ErrDuplicateKw == "TypeError: got multiple values for keyword argument"

ErrIncomplete == "AssertionError: Expanded data are incomplete"

ErrKey == "KeyError"

ErrStore == "StoreError"

DeprecationWarning == "DeprecationWarning"

\* The cell of row i (1-based) of a column built from value v.
CellAt(v, i) ==
  IF v.tag = "scalar" THEN v.items[1]
  ELSE IF i <= Len(v.items) THEN v.items[i]
  ELSE None

\* pandas.DataFrame(data=..., index=...): keys are the dict's keys in order,
\* vals its values, index0 whether index=[0] was passed.
PdDataFrame(keys, vals, index0) ==
  LET K == Range(keys)
      listLens == {Len(vals[k].items) : k \in {x \in K : vals[x].tag = "list"}}
      seriesLens == {Len(vals[k].items) : k \in {x \in K : vals[x].tag = "series"}}
      Build(n) == Returned([kind |-> "DataFrame", columns |-> keys, nrows |-> n,
                            data |-> [k \in K |-> [i \in 1..n |-> CellAt(vals[k], i)]]])
  IN IF index0
       THEN IF listLens \subseteq {1} THEN Build(1) ELSE Raise(ErrLength)
     ELSE IF Cardinality(listLens) > 1 THEN Raise(ErrLength)
     ELSE IF seriesLens # {}
       THEN IF listLens \subseteq {SetMax(seriesLens)}
              THEN Build(SetMax(seriesLens)) ELSE Raise(ErrLength)
     ELSE IF listLens # {} THEN Build(SetMax(listLens))
     ELSE IF K = {} THEN Build(0)
     ELSE Raise(ErrNoIndex)

\* DataFrame.isna().any(axis=None)
isna_any(frame) ==
  \E k \in Range(frame.columns) : \E i \in 1..frame.nrows : frame.data[k][i] = None

----------------------------------------------------------------------------
(* The two registries of item descriptions                                  *)

MESSAGE_ITEMS ==
  ("demand" :> [ix_type |-> "par", idx_sets |-> <<"node", "node">>,
                idx_names |-> <<"node", "region">>])
  @@ ("node" :> [ix_type |-> "set", idx_sets |-> <<>>])

MACRO_ITEMS ==
  ("grow" :> [ix_type |-> "par", idx_sets |-> <<"region", "node">>])
  @@ ("demand" :> [ix_type |-> "var", idx_sets |-> <<"node">>])

Names == {"demand", "grow", "node", "nope"}

----------------------------------------------------------------------------
(* make_df                                                                  *)

\* A mutation of ItemInfo: the secondary registry shadows the primary.
ItemInfo_macro_first(name) ==
  IF name \in DOMAIN MACRO_ITEMS THEN [found |-> TRUE, info |-> MACRO_ITEMS[name]]
  ELSE IF name \in DOMAIN MESSAGE_ITEMS THEN [found |-> TRUE, info |-> MESSAGE_ITEMS[name]]
  ELSE [found |-> FALSE, info |-> <<>>]

\* ChainMap(MESSAGE_ITEMS, MACRO_ITEMS)[name]; found = FALSE is the KeyError.
ItemInfo(name) ==
  IF name \in DOMAIN MESSAGE_ITEMS THEN [found |-> TRUE, info |-> MESSAGE_ITEMS[name]]
  ELSE IF name \in DOMAIN MACRO_ITEMS THEN [found |-> TRUE, info |-> MACRO_ITEMS[name]]
  ELSE [found |-> FALSE, info |-> <<>>]

\* info.get("idx_names", info["idx_sets"])
idx_names(info) ==
  IF "idx_names" \in DOMAIN info THEN info.idx_names ELSE info.idx_sets

\* A mutation of Columns: 'unit' comes before 'value'.
Columns_unit_first(info) == idx_names(info) \o <<"unit", "value">>

\* list(idx_names) + ["value", "unit"]
Columns(info) == idx_names(info) \o <<"value", "unit">>

\* A mutation of DataOrDefault: an absent keyword is looked up under "value".
DataOrDefault_value(data, column) ==
  IF column \in DOMAIN data THEN data[column]
  ELSE IF "value" \in DOMAIN data THEN data["value"]
  ELSE Scalar(None)

\* A mutation of DataOrDefault: only the dimensions are looked up in data.
DataOrDefault_dims_only(data, column) ==
  IF column \in DOMAIN data /\ column \notin {"value", "unit"} THEN data[column]
  ELSE Scalar(None)

\* ChainMap(data, defaultdict(lambda: None))[column]
DataOrDefault(data, column) ==
  IF column \in DOMAIN data THEN data[column] ELSE Scalar(None)

make_df(name, data) ==
  LET look == ItemInfo(name)
  IN IF ~look.found THEN Raise(ErrNotFound)
     ELSE IF look.info.ix_type # "par" THEN Raise(ErrNotPar)
     ELSE LET columns == Columns(look.info)
              args == [c \in Range(columns) |-> DataOrDefault(data, c)]
              all_scalar == \A c \in Range(columns) : is_scalar(args[c])
          IN PdDataFrame(columns, args, all_scalar)

----------------------------------------------------------------------------
(* _deprecated_make_df.  Objects live on a heap (a sequence; a reference is  *)
(* an index); the caller's base object is heap[1].                          *)

NoObject == [type |-> "none", keys |-> <<>>, vals |-> <<>>]

Dict(keys, vals) == [type |-> "dict", keys |-> keys, vals |-> vals]

\* A DataFrame as an object: its columns are series.
FrameObject(frame) ==
  [type |-> "DataFrame", keys |-> frame.columns,
   vals |-> [k \in Range(frame.columns) |-> Series(frame.data[k])]]

\* Keyword arguments are applied in this order.
KeyOrder == <<"node", "region", "value", "unit", "foo">>

\* A mutation of deepcopy: no copy is made, the same object is returned.
deepcopy_alias(h, ref) == [heap |-> h, ref |-> ref]

\* copy.deepcopy(base): a new object with equal contents.
deepcopy(h, ref) == [heap |-> Append(h, h[ref]), ref |-> Len(h) + 1]

\* isinstance(base, Mapping)
is_mapping(obj) == obj.type = "dict"

\* base.to_dict(): a new dict {column: {index: value}}.
to_dict(h, ref) ==
  [heap |-> Append(h, Dict(h[ref].keys, h[ref].vals)), ref |-> Len(h) + 1]

\* base.update(**kwargs), in place: a key already present keeps its position
\* and takes the new value, a new key is appended.
dict_update(h, ref, kwargs) ==
  LET old == h[ref]
      IsNew(k) == k \in DOMAIN kwargs /\ k \notin Range(old.keys)
      keys == old.keys \o SelectSeq(KeyOrder, IsNew)
      vals == [k \in Range(keys) |-> IF k \in DOMAIN kwargs THEN kwargs[k] ELSE old.vals[k]]
  IN [h EXCEPT ![ref] = [type |-> old.type, keys |-> keys, vals |-> vals]]

\* The body of _deprecated_make_df after the warning.
_deprecated_make_df(h, kwargs) ==
  LET c == deepcopy(h, 1)
      d == IF is_mapping(c.heap[c.ref]) THEN c ELSE to_dict(c.heap, c.ref)
      h2 == dict_update(d.heap, d.ref, kwargs)
  IN [heap |-> h2, out |-> PdDataFrame(h2[d.ref].keys, h2[d.ref].vals, FALSE)]

----------------------------------------------------------------------------
(* Inputs                                                                   *)

Letters == <<"a", "b", "c", "d">>

Reverse(s) == [i \in 1..Len(s) |-> s[Len(s) + 1 - i]]

Prefix(n) == SubSeq(Letters, 1, n)

\* Keyword values: one scalar, and lists of every length up to MaxLen.
KwValues ==
  {Scalar("x")} \cup {List(Prefix(n)) : n \in 0..MaxLen}
                \cup {List(Reverse(Prefix(n))) : n \in 2..MaxLen}

Kwargs(keys) == UNION {[K -> KwValues] : K \in SUBSET keys}

BuilderKeys == {"node", "region", "value", "unit", "foo"}

LegacyKeys == {"node", "unit", "foo"}

Upper == <<"A", "B", "C", "D">>

Digits == <<"1", "2", "3", "4">>

\* The rows a stored parameter holds: row i of column k.
StoredCell(k, i) ==
  IF k = "unit" THEN "u"
  ELSE IF k = "value" THEN Digits[i]
  ELSE IF k = "node" THEN Upper[i]
  ELSE Letters[i]

StoredFrame(dims, n) ==
  LET cols == dims \o <<"value", "unit">>
  IN [kind |-> "DataFrame", columns |-> cols, nrows |-> n,
      data |-> [k \in Range(cols) |-> [i \in 1..n |-> StoredCell(k, i)]]]

\* The base objects of the deprecated signature: dicts and data frames.
Bases ==
  {Dict(<<>>, <<>>)}
  \cup {Dict(<<"node">>, [k \in {"node"} |-> v]) : v \in KwValues}
  \cup {Dict(<<"node", "unit">>, [k \in {"node", "unit"} |-> IF k = "node" THEN v ELSE w]) :
          v \in KwValues, w \in KwValues}
  \cup {FrameObject(StoredFrame(<<"node">>, n)) : n \in 0..MaxLen}

NoCall == [op |-> "none", name |-> "", data |-> <<>>, base |-> NoObject]

----------------------------------------------------------------------------
(* The scenario: what par, remove_par, add_par, transact and                *)
(* MESSAGE.initialize_items do to it.                                       *)

Absent == [state |-> "absent", dims |-> <<>>, frame |-> NoFrame]

Item(dims, frame) == [state |-> "par", dims |-> dims, frame |-> frame]

StoredNames == {"demand", "grow", "nope"}

\* scenario.par(name)
par(s, name) == s[name].frame

\* scenario.remove_par(name)
remove_par(s, name) == [s EXCEPT ![name] = Absent]

\* MESSAGE.initialize_items(scenario, {name: info})
initialize_items(s, name, info) ==
  [s EXCEPT ![name] = Item(idx_names(info), StoredFrame(idx_names(info), 0))]

\* scenario.add_par(name, frame)
add_par(s, name, frame) == [s EXCEPT ![name] = Item(s[name].dims, frame)]

InitStores ==
  {[n \in StoredNames |->
      Item(IF n = "demand" THEN d ELSE IF n = "grow" THEN g ELSE <<"node">>,
           StoredFrame(IF n = "demand" THEN d ELSE IF n = "grow" THEN g ELSE <<"node">>, rows))] :
     d \in {<<"node">>, <<"node", "region">>},
     g \in {<<"node">>, <<"region", "node">>},
     rows \in 0..MaxLen}

BuilderStore == [n \in StoredNames |-> Item(<<"node">>, StoredFrame(<<"node">>, 0))]

Init0 ==
  /\ pc = "idle"
  /\ call = NoCall
  /\ result = NoFrame
  /\ raised = "none"
  /\ warnings = <<>>
  /\ heap = <<>>
  /\ checked_out = FALSE
  /\ log = <<>>
  /\ snapshot = store
  /\ pre = store

StoreVars == <<store, snapshot, checked_out, log, pre>>

----------------------------------------------------------------------------
(* Calls of make_df                                                         *)

\* make_df(name, **data) with a string name.
MakeDf ==
  /\ pc = "idle"
  /\ \E name \in Names, data \in Kwargs(BuilderKeys) :
       LET r == make_df(name, data)
       IN /\ call' = [op |-> "make_df", name |-> name, data |-> data, base |-> NoObject]
          /\ result' = r.frame
          /\ raised' = r.err
  /\ pc' = "done"
  /\ UNCHANGED <<warnings, heap, StoreVars>>

\* make_df(base, **kwargs) with a mapping or pandas object: the call is handed
\* to _deprecated_make_df, which warns first.
LegacyWarn ==
  /\ pc = "idle"
  /\ \E base \in Bases, kwargs \in Kwargs(LegacyKeys) :
       /\ call' = [op |-> "_deprecated_make_df", name |-> "", data |-> kwargs, base |-> base]
       /\ heap' = <<base>>
  /\ warnings' = Append(warnings, DeprecationWarning)
  /\ pc' = "warned"
  /\ UNCHANGED <<result, raised, StoreVars>>

LegacyBuild ==
  /\ pc = "warned"
  /\ LET r == _deprecated_make_df(heap, call.data)
     IN /\ heap' = r.heap
        /\ result' = r.out.frame
        /\ raised' = r.out.err
  /\ pc' = "done"
  /\ UNCHANGED <<call, warnings, StoreVars>>

\* The call is over; the caller drops what it got.
Return ==
  /\ pc = "done"
  /\ pc' = "idle"
  /\ call' = NoCall
  /\ result' = NoFrame
  /\ raised' = "none"
  /\ warnings' = <<>>
  /\ heap' = <<>>
  /\ log' = <<>>
  /\ snapshot' = store
  /\ pre' = store
  /\ UNCHANGED <<store, checked_out>>

InitBuilder == store = BuilderStore /\ Init0

NextBuilder == MakeDf \/ LegacyWarn \/ LegacyBuild \/ Return

SpecBuilder == InitBuilder /\ [][NextBuilder]_vars

----------------------------------------------------------------------------
(* expand_dims(scenario, name, **data)                                      *)

\* Values given for a dimension to add: a scalar, lists of every length up
\* to MaxLen, and lists that end in a missing value.
NewDimValues ==
  {Scalar("X")} \cup {List(Prefix(n)) : n \in 0..MaxLen}
                \cup {List(Append(Prefix(n - 1), None)) : n \in 1..MaxLen}

NewDims ==
  UNION {{[k \in K |-> IF k = "region" THEN v
                       ELSE IF k = "node" THEN Scalar("X")
                       ELSE List(<<"a">>)] : v \in NewDimValues} :
           K \in SUBSET {"region", "node", "foo"}}

\* **scenario.par(name): the data frame unpacked as keywords, column -> series.
frame_kwargs(frame) == [k \in Range(frame.columns) |-> Series(frame.data[k])]

\* A mutation of call_kwargs: a keyword of data replaces the stored column.
call_kwargs_override(existing, data) ==
  [err |-> "none", kwargs |-> data @@ frame_kwargs(existing)]

\* The keywords of make_df(name, **scenario.par(name), **data): a keyword
\* given twice is a TypeError at the call.
call_kwargs(existing, data) ==
  IF DOMAIN data \cap Range(existing.columns) # {}
    THEN [err |-> ErrDuplicateKw, kwargs |-> <<>>]
    ELSE [err |-> "none", kwargs |-> frame_kwargs(existing) @@ data]

ExpandRead ==
  /\ pc = "idle"
  /\ \E name \in StoredNames, data \in NewDims :
       call' = [op |-> "expand_dims", name |-> name, data |-> data, base |-> NoObject]
  /\ log' = <<"par">>
  /\ pre' = store
  /\ pc' = "read"
  /\ UNCHANGED <<result, raised, warnings, heap, store, snapshot, checked_out>>

ExpandMake ==
  /\ pc = "read"
  /\ LET kw == call_kwargs(par(store, call.name), call.data)
         r == IF kw.err # "none" THEN Raise(kw.err) ELSE make_df(call.name, kw.kwargs)
     IN /\ result' = r.frame
        /\ raised' = r.err
        /\ pc' = IF r.err = "none" THEN "made" ELSE "done"
  /\ UNCHANGED <<call, warnings, heap, StoreVars>>

\* A mutation of ExpandAssert: the assertion is gone.
ExpandAssert_skipped ==
  /\ pc = "made"
  /\ pc' = "checked"
  /\ UNCHANGED <<call, result, raised, warnings, heap, StoreVars>>

\* assert not new_data.isna().any(axis=None)
ExpandAssert ==
  /\ pc = "made"
  /\ IF isna_any(result)
       THEN raised' = ErrIncomplete /\ pc' = "done"
       ELSE raised' = raised /\ pc' = "checked"
  /\ UNCHANGED <<call, result, warnings, heap, StoreVars>>

\* A mutation of TransactEnter: remove_par is called before the scope opens.
TransactEnter_after_remove ==
  /\ pc = "checked"
  /\ store' = remove_par(store, call.name)
  /\ snapshot' = store'
  /\ checked_out' = TRUE
  /\ log' = log \o <<"remove_par", "transact">>
  /\ pc' = "removed"
  /\ UNCHANGED <<call, result, raised, warnings, heap, pre>>

\* with scenario.transact(...): the scope opens.
TransactEnter ==
  /\ pc = "checked"
  /\ snapshot' = store
  /\ checked_out' = TRUE
  /\ log' = Append(log, "transact")
  /\ pc' = "in_transact"
  /\ UNCHANGED <<call, result, raised, warnings, heap, store, pre>>

\* A call into the scenario inside the scope: it takes effect, or it raises.
StoreCall(opname, after, next) ==
  /\ log' = Append(log, opname)
  /\ \E ok \in BOOLEAN :
       IF ok THEN store' = after /\ raised' = raised /\ pc' = next
             ELSE store' = store /\ raised' = ErrStore /\ pc' = "unwinding"
  /\ UNCHANGED <<call, result, warnings, heap, snapshot, checked_out, pre>>

RemovePar ==
  /\ pc = "in_transact"
  /\ StoreCall("remove_par", remove_par(store, call.name), "removed")

\* MESSAGE.initialize_items(scenario, {name: MESSAGE_ITEMS[name]}): the
\* subscript raises KeyError for a name MESSAGE_ITEMS does not hold.
InitializeItems ==
  /\ pc = "removed"
  /\ IF call.name \in DOMAIN MESSAGE_ITEMS
       THEN StoreCall("initialize_items",
                      initialize_items(store, call.name, MESSAGE_ITEMS[call.name]),
                      "initialized")
       ELSE /\ raised' = ErrKey
            /\ pc' = "unwinding"
            /\ UNCHANGED <<call, result, warnings, heap, StoreVars>>

AddPar ==
  /\ pc = "initialized"
  /\ StoreCall("add_par", add_par(store, call.name, result), "added")

\* The scope closes: commit at its end, roll back when an error leaves it.
TransactExit ==
  /\ pc \in {"added", "unwinding"}
  /\ IF pc = "added"
       THEN store' = store /\ log' = Append(log, "commit")
       ELSE store' = snapshot /\ log' = Append(log, "discard")
  /\ checked_out' = FALSE
  /\ pc' = "done"
  /\ UNCHANGED <<call, result, raised, warnings, heap, snapshot, pre>>

Init == store \in InitStores /\ Init0

Next ==
  \/ ExpandRead \/ ExpandMake \/ ExpandAssert \/ TransactEnter \/ RemovePar
  \/ InitializeItems \/ AddPar \/ TransactExit \/ Return

Spec == Init /\ [][Next]_vars

----------------------------------------------------------------------------
(* Properties of make_df and _deprecated_make_df, checked under SpecBuilder *)

\* The schema a name resolves to, read off the registries: MESSAGE_ITEMS first.
Resolves(name) == name \in DOMAIN MESSAGE_ITEMS \cup DOMAIN MACRO_ITEMS

Resolved(name) ==
  IF name \in DOMAIN MESSAGE_ITEMS THEN MESSAGE_ITEMS[name] ELSE MACRO_ITEMS[name]

IsParName(name) == Resolves(name) /\ Resolved(name).ix_type = "par"

Dimensions(name) ==
  IF "idx_names" \in DOMAIN Resolved(name)
    THEN Resolved(name).idx_names ELSE Resolved(name).idx_sets

ExpectedColumns(name) == Dimensions(name) \o <<"value", "unit">>

MakeDfDone == pc = "done" /\ call.op = "make_df"

\* What row i of column k must hold, given the keywords kw.
ExpectedCell(kw, k, i) ==
  IF k \notin DOMAIN kw THEN None
  ELSE IF kw[k].tag = "scalar" THEN kw[k].items[1]
  ELSE kw[k].items[i]

CellsAsGiven(kw, frame) ==
  \A k \in Range(frame.columns) : \A i \in 1..frame.nrows :
    frame.data[k][i] = ExpectedCell(kw, k, i)

\* C1: for a name that resolves to a "par" schema, whatever keywords are
\* given, the returned table has exactly the columns [dimensions in schema
\* order, "value", "unit"]; keywords that are no column are ignored.
C1_ExactColumns ==
  (MakeDfDone /\ IsParName(call.name) /\ result.kind = "DataFrame") =>
     /\ result.columns = ExpectedColumns(call.name)
     /\ DOMAIN result.data = Range(ExpectedColumns(call.name))

C1_Witness ==
  /\ MakeDfDone /\ call.name = "grow" /\ result.kind = "DataFrame"
  /\ "foo" \in DOMAIN call.data /\ "unit" \notin DOMAIN call.data
  /\ "region" \in DOMAIN call.data

SequenceKeys(kw, keys) == {k \in DOMAIN kw \cap keys : kw[k].tag # "scalar"}

\* The broadcasting rule, with the sequences counted among the keys `keys`.
BroadcastRule(keys) ==
  LET cols == Range(ExpectedColumns(call.name))
      seqs == SequenceKeys(call.data, keys)
  IN /\ (\A k \in DOMAIN call.data \cap cols : is_scalar(call.data[k])) =>
          /\ result.kind = "DataFrame" /\ result.nrows = 1
          /\ CellsAsGiven(call.data, result)
     /\ \A L \in 0..(MaxLen + 1) :
          (seqs # {} /\ \A k \in seqs : Len(call.data[k].items) = L) =>
             /\ result.kind = "DataFrame" /\ result.nrows = L
             /\ CellsAsGiven(call.data, result)

UnevenSequences(keys) ==
  \E k1 \in SequenceKeys(call.data, keys), k2 \in SequenceKeys(call.data, keys) :
    Len(call.data[k1].items) # Len(call.data[k2].items)

\* C7 as stated: any two sequence inputs of different lengths fail the call.
C7_AsStated ==
  (MakeDfDone /\ IsParName(call.name) /\ UnevenSequences(BuilderKeys)) =>
     (raised = ErrLength /\ result = NoFrame)

\* C7, amended: for a name that resolves to a "par" schema, the call fails
\* with the length error, returning no table, whenever two sequences given
\* under column names of that schema have different lengths.
C7_LengthMismatch ==
  (MakeDfDone /\ IsParName(call.name)
     /\ UnevenSequences(Range(ExpectedColumns(call.name)))) =>
     (raised = ErrLength /\ result = NoFrame)

C7_Witness ==
  /\ MakeDfDone /\ call.name = "demand" /\ raised = ErrLength
  /\ "node" \in DOMAIN call.data /\ "value" \in DOMAIN call.data
  /\ Len(call.data["node"].items) = 1 /\ call.data["node"].tag = "list"
  /\ Len(call.data["value"].items) = 2

\* C8: the name is looked up in MESSAGE_ITEMS first, then MACRO_ITEMS; the
\* call raises "not found" exactly when the name is in neither, "not par"
\* exactly when the schema found has another kind, and then returns no table
\* and has touched nothing else.
C8_Resolution ==
  MakeDfDone =>
     /\ (raised = ErrNotFound) <=> ~Resolves(call.name)
     /\ (raised = ErrNotPar) <=> (Resolves(call.name) /\ ~IsParName(call.name))
     /\ raised \in {ErrNotFound, ErrNotPar} =>
          /\ result = NoFrame
          /\ warnings = <<>> /\ heap = <<>> /\ store = pre /\ log = <<>>

C8_Witness ==
  /\ MakeDfDone /\ call.name = "node" /\ raised = ErrNotPar
  /\ DOMAIN call.data = BuilderKeys

LegacyCalled == call.op = "_deprecated_make_df" /\ pc \in {"warned", "done"}

\* C9: a call with a mapping or table first warns and has then done nothing
\* else; the caller's base object is never changed; in the table returned
\* every keyword given carries the keyword's value, also under a key of base.
C9_Legacy ==
  LegacyCalled =>
     /\ warnings = <<DeprecationWarning>>
     /\ heap[1] = call.base
     /\ pc = "warned" => (heap = <<call.base>> /\ result = NoFrame /\ raised = "none")
     /\ (pc = "done" /\ result.kind = "DataFrame") =>
          \A k \in DOMAIN call.data :
            /\ k \in Range(result.columns)
            /\ \A i \in 1..result.nrows : result.data[k][i] = ExpectedCell(call.data, k, i)

C9_Witness ==
  /\ LegacyCalled /\ pc = "done" /\ result.kind = "DataFrame" /\ result.nrows = 2
  /\ call.base.type = "dict" /\ Range(call.base.keys) = {"node", "unit"}
  /\ "node" \in DOMAIN call.data
  /\ call.base.vals["node"] # call.data["node"]

----------------------------------------------------------------------------
(* Properties of expand_dims, checked under Spec                            *)

Expanding == call.op = "expand_dims"

ExpandDone == Expanding /\ pc = "done"

Issued(opname) == opname \in Range(log)

FullLog == <<"par", "transact", "remove_par", "initialize_items", "add_par", "commit">>

IsPrefixOf(s, t) == Len(s) <= Len(t) /\ SubSeq(t, 1, Len(s)) = s

HasEmptyCell(frame) ==
  \E k \in DOMAIN frame.data : \E i \in 1..frame.nrows : frame.data[k][i] = None

\* C3: when the table built from the stored rows and the new dimensions has
\* an empty cell, the call fails with the incomplete-data error; the
\* transaction is never opened, nothing is removed, initialised or inserted,
\* and the scenario is as it was.
C3_IncompleteRejected ==
  (Expanding /\ result.kind = "DataFrame" /\ HasEmptyCell(result)) =>
     /\ pc \in {"made", "done"}
     /\ log = <<"par">>
     /\ ~checked_out
     /\ store = pre
     /\ pc = "done" => raised = ErrIncomplete

C3_Witness ==
  /\ ExpandDone /\ raised = ErrIncomplete
  /\ call.name = "demand" /\ pre["demand"].dims = <<"node">>
  /\ "region" \notin DOMAIN call.data /\ result.nrows = 2

\* C4 as stated: the read and the validation come before the transaction; a
\* call that passes validation (and in which the scenario refuses nothing)
\* opens one transaction and issues remove, initialise, insert in it, once
\* each and in this order; nothing is changed outside the scope.
C4_AsStated ==
  Expanding =>
     /\ Issued("transact") => (pc \notin {"read", "made"} /\ ~HasEmptyCell(result))
     /\ (~checked_out /\ pc # "done") => store = pre
     /\ (pc = "done" /\ Issued("transact") /\ raised # ErrStore) => log = FullLog

\* C5: when the call is over, either the old rows are gone, the schema is
\* the one of MESSAGE_ITEMS and the new rows are in, or the scenario is what
\* it was before the call; an error inside the scope reaches the caller and
\* leaves the scenario as it was.
C5_Atomic ==
  ExpandDone =>
     /\ ~checked_out
     /\ \/ /\ raised = "none"
           /\ store = [pre EXCEPT ![call.name] =
                         Item(Dimensions(call.name), result)]
        \/ raised # "none" /\ store = pre
     /\ (Issued("transact") /\ ~Issued("commit")) => (raised # "none" /\ store = pre)

C5_Witness ==
  /\ ExpandDone /\ raised = ErrStore /\ Issued("add_par") /\ Issued("discard")
  /\ call.name = "demand" /\ pre["demand"].dims = <<"node">> /\ result.nrows = 2
  /\ store = pre

StoredColumns == Range(pre[call.name].frame.columns)

\* C6: the table handed to add_par has as many rows as the stored table had;
\* every stored column is in it unchanged, row by row; every added dimension
\* holds what the caller gave for it, a scalar in every row or the element of
\* its row; and a call that ends without error leaves that table stored.
C6_Preserved ==
  (Expanding /\ Issued("add_par")) =>
     /\ result.nrows = pre[call.name].frame.nrows
     /\ \A k \in StoredColumns :
          k \in DOMAIN result.data /\ result.data[k] = pre[call.name].frame.data[k]
     /\ \A k \in Range(result.columns) \ StoredColumns :
          \A i \in 1..result.nrows :
            k \in DOMAIN call.data /\ result.data[k][i] = ExpectedCell(call.data, k, i)
     /\ (pc = "done" /\ raised = "none") => store[call.name].frame = result

C6_Witness ==
  /\ ExpandDone /\ raised = "none" /\ call.name = "demand"
  /\ pre["demand"].frame.columns = <<"node", "value", "unit">>
  /\ pre["demand"].frame.data["node"] = <<"A", "B">>
  /\ call.data["region"] = Scalar("X")
  /\ store["demand"].frame.columns = <<"node", "region", "value", "unit">>
  /\ store["demand"].frame.data =
       [k \in {"node", "region", "value", "unit"} |->
          IF k = "node" THEN <<"A", "B">>
          ELSE IF k = "region" THEN <<"X", "X">>
          ELSE IF k = "value" THEN <<"1", "2">>
          ELSE <<"u", "u">>]

\* C10 as stated: for every name make_df accepts, from either registry, a
\* call that passes validation (and in which the scenario refuses nothing)
\* ends without error, with the scenario's dimensions for the name those of
\* the schema make_df resolved, which are the dimension columns stored.
C10_AsStated ==
  (ExpandDone /\ IsParName(call.name) /\ Issued("transact") /\ raised # ErrStore) =>
     /\ raised = "none"
     /\ store[call.name].dims = Dimensions(call.name)
     /\ store[call.name].frame.columns = Dimensions(call.name) \o <<"value", "unit">>

====
